---- MODULE Spec2Model ----
(***************************************************************************)
(* The pay-and-verify client glue of edx-platform:                         *)
(*   lms/static/js/verify_student/views/step_view.js  (StepView)           *)
(*   lms/static/js/verify_student/pay_and_verify.js   (page bootstrap)     *)
(*                                                                         *)
(* JavaScript values are tagged records [t, v]; a JavaScript string is the *)
(* sequence of its characters, so that emptiness, concatenation and        *)
(* splitting are computed and not assumed.                                 *)
(***************************************************************************)
EXTENDS Integers, Sequences, FiniteSets, TLC

VARIABLES
    obj,            \* the options object passed to the StepView constructor
    templateUrl,    \* this.templateUrl
    stepData,       \* this.stepData
    nextStepNum,    \* this.nextStepNum
    nextStepTitle,  \* this.nextStepTitle
    renderedHtml,   \* this.renderedHtml (never assigned by initialize)
    elHtml,         \* innerHTML of this.el
    served,         \* the template resource the server holds at templateUrl
    pending,        \* $.ajax requests issued and not yet answered
    fetchCount,     \* $.ajax requests issued so far
    handledCount,   \* responses handled by handleResponse so far
    failed,         \* a request has failed and render() was not called since
    postRendered,   \* postRender() has been invoked at least once
    context,        \* the context handleResponse last built
    listeners,      \* callbacks registered on the view for 'next-step'
    inbox,          \* per callback, the events delivered to it
    op,             \* the operation that made the last step
    log,            \* the calls that operation made, in order
    attrs,          \* data- attributes of #pay-and-verify-container
    bootPc,         \* position of the bootstrap script
    rootOptions,    \* options the bootstrap handed to PayAndVerifyView
    rootConstructed,\* PayAndVerifyView constructions
    rootRenders     \* render() calls on the root view

viewVars == <<obj, templateUrl, stepData, nextStepNum, nextStepTitle,
              renderedHtml, elHtml, served, pending, fetchCount, handledCount,
              failed, postRendered, context, listeners, inbox, op, log>>
bootVars == <<attrs, bootPc, rootOptions, rootConstructed, rootRenders>>
vars == <<viewVars, bootVars>>

----------------------------------------------------------------------------
(* Bounds of the model *)

\* render() is not offered once this many requests have been issued
MaxFetches == 3
\* nextStep() is not offered once a callback holds this many events
MaxSignals == 2

----------------------------------------------------------------------------
(* JavaScript values *)

Undefined == [t |-> "undefined", v |-> <<>>]
Str(s) == [t |-> "string", v |-> s]
Num(n) == [t |-> "number", v |-> n]
Bool(b) == [t |-> "boolean", v |-> b]
Arr(a) == [t |-> "array", v |-> a]
Obj(f) == [t |-> "object", v |-> f]
EmptyMap == [k \in {} |-> Undefined]

\* ToBoolean: what `!x`, `x && y` and `x || y` test
Truthy(x) ==
    CASE x.t = "undefined" -> FALSE
      [] x.t = "string" -> x.v # <<>>
      [] x.t = "number" -> x.v # 0
      [] x.t = "boolean" -> x.v
      [] OTHER -> TRUE

\* x || d
OrElse(x, d) == IF Truthy(x) THEN x ELSE d

\* property read o[k]: undefined when o has no such property
Get(o, k) == IF k \in DOMAIN o.v THEN o.v[k] ELSE Undefined

DigitChar(d) ==
    CASE d = 0 -> "0" [] d = 1 -> "1" [] d = 2 -> "2" [] d = 3 -> "3"
      [] d = 4 -> "4" [] d = 5 -> "5" [] d = 6 -> "6" [] d = 7 -> "7"
      [] d = 8 -> "8" [] d = 9 -> "9"

RECURSIVE NatToChars(_)
NatToChars(n) ==
    IF n < 10 THEN <<DigitChar(n)>>
    ELSE NatToChars(n \div 10) \o <<DigitChar(n % 10)>>

\* string concatenation '' + x of a primitive
ToChars(x) ==
    CASE x.t = "string" -> x.v
      [] x.t = "number" -> NatToChars(x.v)
      [] x.t = "boolean" -> IF x.v THEN <<"t","r","u","e">> ELSE <<"f","a","l","s","e">>
      [] OTHER -> <<"u","n","d","e","f","i","n","e","d">>

----------------------------------------------------------------------------
(* Library calls StepView makes *)

\* a merge in which the destination keeps what it already holds (the
\* precedence of _.defaults)
Extend_destinationWins(destination, source) ==
    Obj([k \in DOMAIN destination.v \cup DOMAIN source.v |->
            IF k \in DOMAIN destination.v THEN destination.v[k] ELSE source.v[k]])

\* _.extend(destination, source): every property of source is copied onto
\* destination, overwriting what destination held under that name
Extend(destination, source) ==
    Obj([k \in DOMAIN destination.v \cup DOMAIN source.v |->
            IF k \in DOMAIN source.v THEN source.v[k] ELSE destination.v[k]])

\* A template text is a sequence of pieces: literal characters and
\* interpolations <%= name %>.
Lit(c) == [k |-> "lit", c |-> c]
Var(n) == [k |-> "var", c |-> n]

\* _.template(data, context): the text with every <%= name %> replaced by
\* the context's value of that name; an interpolated null/undefined prints
\* nothing
RECURSIVE TemplateChars(_, _)
TemplateChars(data, ctx) ==
    IF data = <<>> THEN <<>>
    ELSE LET p == Head(data)
             piece == IF p.k = "lit" THEN <<p.c>>
                      ELSE IF Get(ctx, p.c).t = "undefined" THEN <<>>
                      ELSE ToChars(Get(ctx, p.c))
         IN piece \o TemplateChars(Tail(data), ctx)

Template(data, ctx) == Str(TemplateChars(data, ctx))

\* $(el).html(value): with a string it replaces the element's content; with
\* undefined it is the getter form of .html() and the content stays as it is
HtmlResult(content, value) ==
    IF value.t = "undefined" THEN content ELSE value.v

HtmlCall(value) ==
    IF value.t = "undefined" THEN "html(undefined)" ELSE "html"

\* one event as a callback receives it
Event(name, args) == [name |-> name, args |-> args]

\* this.trigger(name): every callback registered for name is called once,
\* with the arguments that followed name in the call
Trigger(box, name, args) ==
    [l \in DOMAIN box |->
        IF l \in listeners THEN Append(box[l], Event(name, args)) ELSE box[l]]

----------------------------------------------------------------------------
(* The network: the resource behind templateUrl.  The server holds one     *)
(* template text per view for the life of the page; every successful       *)
(* response carries it.                                                    *)

TemplateTexts ==
    { <<>>,
      <<Lit("a")>>,
      <<Var("nextStepTitle")>>,
      <<Lit("n"), Var("nextStepNum")>> }

----------------------------------------------------------------------------
(* StepView *)

Listeners == {"l1", "l2"}

StepDatas ==
    { Undefined,
      Obj(EmptyMap),
      Obj([courseKey |-> Str(<<"c">>)]),
      Obj([nextStepNum |-> Num(9)]),
      Obj([nextStepTitle |-> Str(<<"X">>), courseKey |-> Str(<<"c">>)]) }

\* what a caller may pass to the constructor
CtorOptions ==
    [ templateUrl : {Undefined, Str(<<>>), Str(<<"u">>)},
      stepData : StepDatas,
      nextStepNum : {Undefined, Num(2)},
      nextStepTitle : {Undefined, Str(<<>>), Str(<<"P","a","y">>)} ]

\* content of the element the view is attached to (the `el` option)
ElContents == { <<>>, <<"o","l","d">> }

\* initialize(obj): the four fields; renderedHtml is not assigned
initialize(o) ==
    /\ obj = o
    /\ templateUrl = OrElse(o.templateUrl, Str(<<>>))
    /\ stepData = OrElse(o.stepData, Obj(EmptyMap))
    /\ nextStepNum = OrElse(o.nextStepNum, Str(<<>>))
    /\ nextStepTitle = OrElse(o.nextStepTitle, Str(<<>>))
    /\ renderedHtml = Undefined

ViewStart ==
    /\ pending = 0
    /\ fetchCount = 0
    /\ handledCount = 0
    /\ failed = FALSE
    /\ postRendered = FALSE
    /\ context = Undefined
    /\ inbox = [l \in Listeners |-> <<>>]
    /\ op = "initialize"
    /\ log = <<>>

\* postRender(): the base class does nothing; the call is recorded
postRender(calls) == Append(calls, "postRender")

\* render(): a cache miss with a template URL issues the request and returns;
\* anything else writes this.renderedHtml and calls postRender
render ==
    /\ IF ~Truthy(renderedHtml) /\ Truthy(templateUrl)
       THEN /\ fetchCount < MaxFetches
            /\ fetchCount' = fetchCount + 1
            /\ pending' = pending + 1
            /\ log' = <<"ajax">>
            /\ UNCHANGED <<elHtml, postRendered>>
       ELSE /\ elHtml' = HtmlResult(elHtml, renderedHtml)
            /\ log' = postRender(<<HtmlCall(renderedHtml)>>)
            /\ postRendered' = TRUE
            /\ UNCHANGED <<fetchCount, pending>>
    /\ op' = "render"
    /\ failed' = FALSE
    /\ UNCHANGED <<obj, templateUrl, stepData, nextStepNum, nextStepTitle,
                   renderedHtml, served, handledCount, context,
                   listeners, inbox>>

\* handleResponse(data): the success callback of one outstanding request
handleResponse ==
    /\ pending > 0
    /\ pending' = pending - 1
    /\ LET data == served
           ctx == Extend(Obj([nextStepNum |-> nextStepNum,
                              nextStepTitle |-> nextStepTitle]), stepData)
           html == Template(data, ctx)
       IN /\ context' = ctx
          /\ renderedHtml' = html
          /\ elHtml' = HtmlResult(elHtml, html)
          /\ log' = postRender(<<HtmlCall(html)>>)
    /\ postRendered' = TRUE
    /\ handledCount' = handledCount + 1
    /\ op' = "handleResponse"
    /\ UNCHANGED <<obj, templateUrl, stepData, nextStepNum, nextStepTitle,
                   served, fetchCount, failed, listeners, inbox>>

\* An outstanding request ends in an error: $.ajax was given no error
\* callback, so no code of the view runs
fetchError ==
    /\ pending > 0
    /\ pending' = pending - 1
    /\ failed' = TRUE
    /\ op' = "fetchError"
    /\ log' = <<>>
    /\ UNCHANGED <<obj, templateUrl, stepData, nextStepNum, nextStepTitle,
                   renderedHtml, elHtml, served, fetchCount, handledCount,
                   postRendered, context, listeners, inbox>>

\* a variant of nextStep that also re-renders the view
nextStep_andRender ==
    /\ \A l \in Listeners : Len(inbox[l]) < MaxSignals
    /\ inbox' = Trigger(inbox, "next-step", <<>>)
    /\ elHtml' = <<>>
    /\ op' = "nextStep"
    /\ log' = postRender(<<"trigger", "html">>)
    /\ postRendered' = TRUE
    /\ UNCHANGED <<obj, templateUrl, stepData, nextStepNum, nextStepTitle,
                   renderedHtml, served, pending, fetchCount, handledCount,
                   failed, context, listeners>>

\* nextStep(): this.trigger('next-step')
nextStep ==
    /\ \A l \in Listeners : Len(inbox[l]) < MaxSignals
    /\ inbox' = Trigger(inbox, "next-step", <<>>)
    /\ op' = "nextStep"
    /\ log' = <<"trigger">>
    /\ UNCHANGED <<obj, templateUrl, stepData, nextStepNum, nextStepTitle,
                   renderedHtml, elHtml, served, pending, fetchCount,
                   handledCount, failed, postRendered, context, listeners>>

----------------------------------------------------------------------------
(* The container element and jQuery's .data() *)

Absent == [present |-> FALSE, raw |-> <<>>]
Present(s) == [present |-> TRUE, raw |-> s]

Digits == {"0","1","2","3","4","5","6","7","8","9"}

DigitValue(c) ==
    CASE c = "0" -> 0 [] c = "1" -> 1 [] c = "2" -> 2 [] c = "3" -> 3
      [] c = "4" -> 4 [] c = "5" -> 5 [] c = "6" -> 6 [] c = "7" -> 7
      [] c = "8" -> 8 [] c = "9" -> 9

\* the decimal numerals a number prints back as: digits only, no leading zero
IsNumeral(s) ==
    /\ s # <<>>
    /\ \A i \in 1..Len(s) : s[i] \in Digits
    /\ Len(s) > 1 => s[1] # "0"

RECURSIVE NumeralValue(_)
NumeralValue(s) ==
    IF s = <<>> THEN 0
    ELSE 10 * NumeralValue(SubSeq(s, 1, Len(s) - 1)) + DigitValue(s[Len(s)])

\* String.prototype.split(sep) for a one-character separator: the pieces
\* between separators, empty pieces kept; "" splits into [""]
RECURSIVE Split(_, _)
Split(s, sep) ==
    IF \A i \in 1..Len(s) : s[i] # sep
    THEN <<s>>
    ELSE LET i == CHOOSE j \in 1..Len(s) :
                      s[j] = sep /\ \A h \in 1..(j - 1) : s[h] # sep
         IN <<SubSeq(s, 1, i - 1)>> \o Split(SubSeq(s, i + 1, Len(s)), sep)

\* JSON text of an array of plain strings, ["a","b"]
IsArrayText(s) == Len(s) >= 2 /\ s[1] = "[" /\ s[Len(s)] = "]"

ParseArrayText(s) ==
    LET inner == SubSeq(s, 2, Len(s) - 1)
        items == IF inner = <<>> THEN <<>> ELSE Split(inner, ",")
    IN Arr([i \in 1..Len(items) |-> Str(SubSeq(items[i], 2, Len(items[i]) - 1))])

\* el.data(name): undefined without the attribute; otherwise the attribute's
\* text converted by jQuery: "true"/"false" to booleans, a numeral to a
\* number, JSON text to its value, anything else the string itself.  The
\* texts of this model hold no "null", no sign, no fraction and no JSON
\* other than an array of strings.
Data(name) ==
    LET a == attrs[name] IN
    IF ~a.present THEN Undefined
    ELSE IF a.raw = <<"t","r","u","e">> THEN Bool(TRUE)
    ELSE IF a.raw = <<"f","a","l","s","e">> THEN Bool(FALSE)
    ELSE IF IsNumeral(a.raw) THEN Num(NumeralValue(a.raw))
    ELSE IF IsArrayText(a.raw) THEN ParseArrayText(a.raw)
    ELSE Str(a.raw)

----------------------------------------------------------------------------
(* pay_and_verify.js *)

PricesAttr == "course-mode-suggested-prices"

\* the other attributes the script reads, each with the text a page may carry
SampleText ==
    [ n \in { "display-steps", "current-step", "intro-title", "intro-msg",
              "requirements", "course-key", "course-mode-min-price",
              "course-mode-currency", "purchase-endpoint", "course-name",
              "course-start-date", "courseware-url", "full-name" } |->
        CASE n = "display-steps" -> <<"[", "\"", "i", "\"", ",", "\"", "p", "\"", "]">>
          [] n = "current-step" -> <<"i">>
          [] n = "intro-title" -> <<"V","e","r","i","f","y">>
          [] n = "course-mode-min-price" -> <<"5">>
          [] n = "course-mode-currency" -> <<"u","s","d">>
          [] n = "course-start-date" -> <<"2","0","1","5">>
          [] OTHER -> <<"x">> ]

PricesTexts ==
    { <<"1","0",",","2","5",",","5","0">>,
      <<"1","0">>,
      <<"0">>,
      <<"5",",">>,
      <<"t","r","u","e">>,
      <<>> }

AttrNames == DOMAIN SampleText \cup {PricesAttr}

\* every container: any subset of the attributes present, any prices text
Containers ==
    { [ n \in AttrNames |->
          IF n = PricesAttr THEN p
          ELSE IF n \in present THEN Present(SampleText[n]) ELSE Absent ] :
        present \in SUBSET DOMAIN SampleText,
        p \in {Absent} \cup {Present(x) : x \in PricesTexts} }

\* (value).split(","): a method of strings only; on a number or a boolean
\* the call is a TypeError
CanSplit(value) == value.t = "string"

SplitValue(value, sep) ==
    LET pieces == Split(value.v, sep)
    IN Arr([i \in 1..Len(pieces) |-> Str(pieces[i])])

\* the object literal handed to PayAndVerifyView
RootOptions ==
    Obj([ displaySteps |-> Data("display-steps"),
          currentStep |-> Data("current-step"),
          stepInfo |-> Obj(
              ("intro-step" :> Obj([
                    introTitle |-> Data("intro-title"),
                    introMsg |-> Data("intro-msg"),
                    requirements |-> Data("requirements") ]))
           @@ ("make-payment-step" :> Obj([
                    courseKey |-> Data("course-key"),
                    minPrice |-> Data("course-mode-min-price"),
                    suggestedPrices |->
                        SplitValue(OrElse(Data(PricesAttr), Str(<<>>)), ","),
                    currency |-> Data("course-mode-currency"),
                    purchaseEndpoint |-> Data("purchase-endpoint") ]))
           @@ ("payment-confirmation-step" :> Obj([
                    courseName |-> Data("course-name"),
                    courseStartDate |-> Data("course-start-date"),
                    coursewareUrl |-> Data("courseware-url") ]))
           @@ ("review-photos-step" :> Obj([
                    fullName |-> Data("full-name") ]))) ])

\* The script body: build the options, construct the root view, render it.
\* A TypeError while the literal is evaluated ends the script before the
\* constructor runs.
bootstrap ==
    /\ bootPc = "load"
    /\ IF CanSplit(OrElse(Data(PricesAttr), Str(<<>>)))
       THEN /\ rootOptions' = RootOptions
            /\ rootConstructed' = rootConstructed + 1
            /\ rootRenders' = rootRenders + 1
            /\ bootPc' = "done"
       ELSE /\ bootPc' = "threw"
            /\ UNCHANGED <<rootOptions, rootConstructed, rootRenders>>
    /\ UNCHANGED attrs

BootStart ==
    /\ bootPc = "load"
    /\ rootOptions = Undefined
    /\ rootConstructed = 0
    /\ rootRenders = 0

----------------------------------------------------------------------------
(* Specifications *)

\* the page of the end-to-end scenario, before its script has run
ScenarioContainer ==
    [ n \in AttrNames |->
        IF n \in {"display-steps", "current-step", "intro-title"}
        THEN Present(SampleText[n]) ELSE Absent ]

\* one step view, constructed with any options on any element
Init ==
    /\ \E o \in CtorOptions : initialize(o)
    /\ elHtml \in ElContents
    /\ served \in TemplateTexts
    /\ listeners \in {{}, {"l1"}, {"l1", "l2"}}
    /\ ViewStart
    /\ attrs = ScenarioContainer
    /\ BootStart

Next ==
    \/ render /\ UNCHANGED bootVars
    \/ handleResponse /\ UNCHANGED bootVars
    \/ fetchError /\ UNCHANGED bootVars
    \/ nextStep /\ UNCHANGED bootVars

Spec == Init /\ [][Next]_vars

\* the page load, on any container; no step view has been rendered yet
BootInit ==
    /\ attrs \in Containers
    /\ BootStart
    /\ initialize([templateUrl |-> Undefined, stepData |-> Undefined,
                   nextStepNum |-> Undefined, nextStepTitle |-> Undefined])
    /\ elHtml = <<>>
    /\ served = <<>>
    /\ listeners = {}
    /\ ViewStart

BootNext == bootstrap /\ UNCHANGED viewVars

BootSpec == BootInit /\ [][BootNext]_vars

----------------------------------------------------------------------------
(* Properties of StepView, checked under Spec *)

Calls(name) == {i \in 1..Len(log) : log[i] = name}

\* the informal state model of a view: Uninitialized, Fetching, Rendered
Phase ==
    IF postRendered THEN "Rendered"
    ELSE IF pending > 0 THEN "Fetching"
    ELSE "Uninitialized"

\* C1: a view issues at most one template request and computes the rendered
\* HTML at most once, whatever the order of render() calls and responses.
C1_AtMostOneFetch ==
    /\ fetchCount <= 1
    /\ handledCount <= 1

\* C2: once a response has been handled, every render() call issues no
\* request, writes the cached HTML into the element and calls postRender()
\* exactly once.
C2_RenderReusesCache ==
    [][ (handledCount > 0 /\ op' = "render") =>
            /\ fetchCount' = fetchCount
            /\ pending' = pending
            /\ elHtml' = renderedHtml.v
            /\ log' = <<"html", "postRender">> ]_vars

\* C3: every postRender() call comes directly after a write of the element's
\* content made by the same operation, and the request-issuing path of
\* render() calls postRender() not at all.
C3_PostRenderFollowsWrite ==
    /\ \A i \in Calls("postRender") : i > 1 /\ log[i - 1] = "html"
    /\ Calls("ajax") # {} => Calls("postRender") = {}

\* C4: on a view without a template locator and without cached output, a
\* render() call issues no request, leaves the element with empty content
\* and calls postRender() exactly once; the view never has a request
\* outstanding.
C4_NoTemplateRendersEmpty ==
    (~Truthy(templateUrl) /\ ~Truthy(renderedHtml)) =>
        /\ fetchCount = 0
        /\ pending = 0
        /\ op = "render" =>
              /\ elHtml = <<>>
              /\ Cardinality(Calls("postRender")) = 1

\* C5: a failed request leaves the cached HTML and the element's content as
\* they were, calls nothing and issues no retry; and from then on, as long
\* as render() is not called again, the element's content never changes.
C5_FailureChangesNothing ==
    [][ /\ op' = "fetchError" =>
              /\ renderedHtml' = renderedHtml
              /\ elHtml' = elHtml
              /\ fetchCount' = fetchCount
              /\ log' = <<>>
        /\ (failed /\ op' # "render") => elHtml' = elHtml ]_vars

\* C7: a nextStep() call delivers exactly one 'next-step' event without
\* arguments to each registered callback and changes nothing else: no
\* field of the view, not the element, no request, no postRender() call.
C7_NextStepOnlySignals ==
    [][ op' = "nextStep" =>
            /\ \A l \in listeners :
                  inbox'[l] = Append(inbox[l], Event("next-step", <<>>))
            /\ \A l \in Listeners \ listeners : inbox'[l] = inbox[l]
            /\ UNCHANGED <<templateUrl, stepData, nextStepNum, nextStepTitle,
                           renderedHtml, elHtml, pending, fetchCount,
                           handledCount, postRendered, context, listeners>>
            /\ Calls("ajax")' = {}
            /\ Calls("postRender")' = {}
            /\ Calls("html")' = {} ]_vars

C7_Witness ==
    /\ op = "nextStep"
    /\ listeners = {"l1", "l2"}
    /\ Len(inbox["l1"]) = 2
    /\ pending > 0
    /\ renderedHtml.t = "string"

C10_PhasesOnlyForward ==
    [][ /\ (Phase' = "Fetching" /\ Phase # "Fetching") =>
              /\ Phase = "Uninitialized"
              /\ op' = "render"
              /\ Truthy(templateUrl)
              /\ ~Truthy(renderedHtml)
        /\ (Phase = "Fetching" /\ Phase' = "Rendered") => op' = "handleResponse"
        /\ Phase = "Rendered" =>
              /\ Phase' = "Rendered"
              /\ fetchCount' = fetchCount
              /\ renderedHtml' = renderedHtml ]_vars

----------------------------------------------------------------------------
(* Properties of the bootstrap, checked under BootSpec *)

\* the text of an attribute, "" when the container does not carry it
RawText(name) == IF attrs[name].present THEN attrs[name].raw ELSE <<>>

StepInfo == Get(rootOptions, "stepInfo")

\* where each attribute other than the prices is to appear
KeyOf ==
    [ n \in DOMAIN SampleText |->
        CASE n = "display-steps" -> <<"displaySteps">>
          [] n = "current-step" -> <<"currentStep">>
          [] n = "intro-title" -> <<"intro-step", "introTitle">>
          [] n = "intro-msg" -> <<"intro-step", "introMsg">>
          [] n = "requirements" -> <<"intro-step", "requirements">>
          [] n = "course-key" -> <<"make-payment-step", "courseKey">>
          [] n = "course-mode-min-price" -> <<"make-payment-step", "minPrice">>
          [] n = "course-mode-currency" -> <<"make-payment-step", "currency">>
          [] n = "purchase-endpoint" -> <<"make-payment-step", "purchaseEndpoint">>
          [] n = "course-name" -> <<"payment-confirmation-step", "courseName">>
          [] n = "course-start-date" -> <<"payment-confirmation-step", "courseStartDate">>
          [] n = "courseware-url" -> <<"payment-confirmation-step", "coursewareUrl">>
          [] n = "full-name" -> <<"review-photos-step", "fullName">> ]

ValueAt(path) ==
    IF Len(path) = 1 THEN Get(rootOptions, path[1])
    ELSE Get(Get(StepInfo, path[1]), path[2])

\* C6: whatever the text of course-mode-suggested-prices, the script ends
\* with suggestedPrices being the strings between the commas of that text:
\* "10,25,50" gives ["10","25","50"], no attribute gives [""].
C6_SuggestedPricesSplit ==
    bootPc # "load" =>
        /\ bootPc = "done"
        /\ Get(Get(StepInfo, "make-payment-step"), "suggestedPrices")
             = SplitValue(Str(RawText(PricesAttr)), ",")

\* C9: whichever attributes the container carries, the script constructs
\* the root view exactly once with {displaySteps, currentStep, stepInfo}
\* and renders it exactly once; stepInfo has exactly the four step keys;
\* every attribute present is found under its key as .data() reads it, and
\* every attribute absent leaves undefined there.
C9_RootViewBuiltOnce ==
    bootPc # "load" =>
        /\ rootConstructed = 1
        /\ rootRenders = 1
        /\ DOMAIN rootOptions.v = {"displaySteps", "currentStep", "stepInfo"}
        /\ DOMAIN StepInfo.v = {"intro-step", "make-payment-step",
                                "payment-confirmation-step", "review-photos-step"}
        /\ \A n \in DOMAIN SampleText :
              ValueAt(KeyOf[n]) = IF attrs[n].present THEN Data(n) ELSE Undefined

====
